---- MODULE Spec2Model ----
(***************************************************************************)
(* overcast-to-sqlite: the archive pipeline of src/src/main.rs             *)
(* (authenticate, get_podcasts, create_tables, upsert_feeds) and its       *)
(* copies in src/src/overcast.rs and src/src/sqlite.rs.                    *)
(***************************************************************************)
EXTENDS Integers, Sequences, FiniteSets, TLC

VARIABLES
    tables,      \* names of the tables that exist in the sqlite file
    feeds,       \* feeds table: rowid -> row
    episodes,    \* episodes table: rowid -> row
    fkEnforced,  \* whether the linked sqlite enforces FOREIGN KEY clauses
    upsertPc,    \* upsert_feeds: "idle", "running", "ok", "err"
    curFeeds,    \* the &[Feed] argument of the current / last upsert_feeds call
    stmtIdx,     \* index of the next conn.execute of the current call
    snap,        \* the tables as they were when the current call started
    wlog,        \* the statements executed by the current call, in order
    repeat,      \* the current call repeats the previous call's argument
    prevEnd,     \* how the previous call ended, when repeat holds
    export,      \* what the export endpoint answers a GET with
    parsePc,     \* get_podcasts: "start", "done"
    parseResult, \* what get_podcasts returned
    response,    \* what the login endpoint answers the POST with
    authPc,      \* authenticate: "start", "done"
    authResult,  \* what authenticate returned
    creds,       \* where archive finds the credentials
    phase,       \* archive: the call it is about to make, or "done"
    phaseLog,    \* archive: the calls made so far, each with how it ended
    connOpen,    \* archive: Connection::open was called on the sqlite file
    outcome      \* archive: how the run ended

storeVars == <<tables, feeds, episodes, fkEnforced>>
runVars == <<upsertPc, curFeeds, stmtIdx, snap, wlog, repeat, prevEnd>>
parseVars == <<export, parsePc, parseResult>>
authVars == <<response, authPc, authResult>>
archVars == <<creds, phase, phaseLog, connOpen, outcome>>
vars == <<storeVars, runVars, parseVars, authVars, archVars>>

----------------------------------------------------------------------------
(* Values.                                                                 *)

\* Option<T>
None == <<"None">>
Some(v) == <<"Some", v>>
IsSome(o) == o[1] = "Some"
Unwrap(o) == o[2]

\* sqlite values as rusqlite's ToSql binds them
SqlNull == <<"null">>
SqlInteger(n) == <<"integer", n>>
SqlText(s) == <<"text", s>>

\* ToSql for String, bool, Option<String>, Option<i64>, Option<NaiveDateTime>
StringToSql(s) == SqlText(s)
BoolToSql(b) == IF b THEN SqlInteger(1) ELSE SqlInteger(0)
OptionTextToSql(o) == IF IsSome(o) THEN SqlText(Unwrap(o)) ELSE SqlNull
OptionIntToSql(o) == IF IsSome(o) THEN SqlInteger(Unwrap(o)) ELSE SqlNull

\* The texts of the model that sqlite reads as an integer, with their value;
\* every other text ("", "x") is no integer.
IntegerTexts == ("1" :> 1) @@ ("01" :> 1) @@ ("2" :> 2) @@ ("7" :> 7) @@ ("07" :> 7)

\* A column declared INTEGER: a bound text that reads as an integer is stored
\* as that integer, any other value is stored as it is.
IntegerAffinity(v) ==
    IF v[1] = "text" /\ v[2] \in DOMAIN IntegerTexts
    THEN SqlInteger(IntegerTexts[v[2]])
    ELSE v

----------------------------------------------------------------------------
(* The statements of upsert_feeds.                                         *)

\* params![feed.id, feed.title, feed.subscribed, feed.feed_url, feed.html_url]
FeedInsert(feed) ==
    [table |-> "feeds",
     id |-> StringToSql(feed.id),
     row |-> [title |-> StringToSql(feed.title),
              subscribed |-> BoolToSql(feed.subscribed),
              feedUrl |-> OptionTextToSql(feed.feed_url),
              htmlUrl |-> OptionTextToSql(feed.html_url)]]

\* A slip: the episode's own id bound where the owning feed's id belongs.
EpisodeInsertOwnId(feed, episode) ==
    [table |-> "episodes",
     id |-> StringToSql(episode.id),
     row |-> [title |-> StringToSql(episode.title),
              played |-> BoolToSql(episode.played),
              feedId |-> IntegerAffinity(StringToSql(episode.id)),
              publishedAt |-> OptionTextToSql(episode.published_at),
              updatedAt |-> OptionTextToSql(episode.updated_at),
              htmlUrl |-> OptionTextToSql(episode.html_url),
              overcastUrl |-> OptionTextToSql(episode.overcast_url),
              mp3Url |-> OptionTextToSql(episode.mp3_url),
              progress |-> OptionIntToSql(episode.progress),
              userDeleted |-> BoolToSql(episode.user_deleted)]]

\* params![episode.id, episode.title, episode.played, feed.id, ...]
EpisodeInsert(feed, episode) ==
    [table |-> "episodes",
     id |-> StringToSql(episode.id),
     row |-> [title |-> StringToSql(episode.title),
              played |-> BoolToSql(episode.played),
              feedId |-> IntegerAffinity(StringToSql(feed.id)),
              publishedAt |-> OptionTextToSql(episode.published_at),
              updatedAt |-> OptionTextToSql(episode.updated_at),
              htmlUrl |-> OptionTextToSql(episode.html_url),
              overcastUrl |-> OptionTextToSql(episode.overcast_url),
              mp3Url |-> OptionTextToSql(episode.mp3_url),
              progress |-> OptionIntToSql(episode.progress),
              userDeleted |-> BoolToSql(episode.user_deleted)]]

\* A slip: the episodes of a feed written before the feed's own row.
FeedStatementsEpisodesFirst(feed, i) ==
    [j \in 1..Len(feed.episodes) |->
          [kind |-> "episode", feed |-> i, episode |-> j,
           sql |-> EpisodeInsert(feed, feed.episodes[j])]]
    \o <<[kind |-> "feed", feed |-> i, episode |-> 0, sql |-> FeedInsert(feed)]>>

\* The statements of one feed: its row, then one per episode.
FeedStatements(feed, i) ==
    <<[kind |-> "feed", feed |-> i, episode |-> 0, sql |-> FeedInsert(feed)]>>
    \o [j \in 1..Len(feed.episodes) |->
          [kind |-> "episode", feed |-> i, episode |-> j,
           sql |-> EpisodeInsert(feed, feed.episodes[j])]]

RECURSIVE StatementsFrom(_, _)
StatementsFrom(fs, i) ==
    IF i > Len(fs) THEN <<>>
    ELSE FeedStatements(fs[i], i) \o StatementsFrom(fs, i + 1)

\* The conn.execute calls of upsert_feeds(conn, fs), in program order.
Statements(fs) == StatementsFrom(fs, 1)

----------------------------------------------------------------------------
(* sqlite: INSERT OR REPLACE.                                              *)

Db == [tables |-> tables, feeds |-> feeds, episodes |-> episodes]

\* A slip: the id column left out of the INSERT, so that sqlite gives every
\* written row the next free rowid.
InsertNextRowid(tbl, key, row) ==
    LET top == IF DOMAIN tbl = {} THEN 0 ELSE CHOOSE m \in DOMAIN tbl : \A k \in DOMAIN tbl : k <= m
    IN ((top + 1) :> row) @@ tbl

\* A slip: INSERT OR IGNORE, which keeps the row already stored under the key.
InsertOrIgnore(tbl, key, row) == IF key \in DOMAIN tbl THEN tbl ELSE (key :> row) @@ tbl

\* INSERT OR REPLACE INTO t(id, ...): the row stored under the key, if any,
\* is deleted and the new row takes its place.
InsertOrReplace(tbl, key, row) == (key :> row) @@ tbl

\* FOREIGN KEY(feedId) REFERENCES feeds(id), where it is enforced.
ForeignKeyHolds(db, sql) ==
    \/ sql.table # "episodes"
    \/ sql.row.feedId = SqlNull
    \/ /\ sql.row.feedId[1] = "integer"
       /\ sql.row.feedId[2] \in DOMAIN db.feeds

\* One conn.execute: the error of a missing table, of an id that is no
\* integer (INTEGER PRIMARY KEY), of a failed foreign key; else the write.
Execute(db, sql, fk) ==
    LET key == IntegerAffinity(sql.id) IN
    IF sql.table \notin db.tables THEN [ok |-> FALSE, db |-> db]
    ELSE IF key[1] # "integer" THEN [ok |-> FALSE, db |-> db]
    ELSE IF fk /\ ~ForeignKeyHolds(db, sql) THEN [ok |-> FALSE, db |-> db]
    ELSE IF sql.table = "feeds"
         THEN [ok |-> TRUE, db |-> [db EXCEPT !.feeds = InsertOrReplace(@, key[2], sql.row)]]
         ELSE [ok |-> TRUE, db |-> [db EXCEPT !.episodes = InsertOrReplace(@, key[2], sql.row)]]

\* A slip: the statements of a call wrapped in a transaction that a failure
\* rolls back.
AfterFailureRollback(db, atStart) == atStart

\* conn.execute(...)? with no transaction open: the rows written so far stay.
AfterFailure(db, atStart) == db

----------------------------------------------------------------------------
(* Inputs.                                                                 *)

\* The most rows (feeds plus episodes) one upsert_feeds argument holds.
MaxBatchRows == 3

Episode(id, v) ==
    [id |-> id,
     title |-> IF v = "A" THEN "Pilot" ELSE "Pilot (remastered)",
     played |-> v = "A",
     published_at |-> IF v = "A" THEN Some("2021-01-01T00:00:00") ELSE None,
     updated_at |-> None,
     html_url |-> None,
     overcast_url |-> None,
     mp3_url |-> IF v = "A" THEN Some("http://e.mp3") ELSE None,
     user_deleted |-> FALSE,
     progress |-> IF v = "A" THEN Some(5) ELSE None]

EpisodeInputs == {Episode("7", "A"), Episode("07", "B"), Episode("x", "A")}

FeedRecord(id, v, eps) ==
    [id |-> id,
     title |-> IF v = "A" THEN "My Show" ELSE "My Show 2",
     subscribed |-> v = "A",
     episodes |-> eps,
     feed_url |-> IF v = "A" THEN Some("http://f.xml") ELSE None,
     html_url |-> None]

FeedHeads == {<<"1", "A">>, <<"01", "B">>, <<"2", "A">>}

RECURSIVE EpisodeLists(_)
EpisodeLists(n) ==
    IF n = 0 THEN {<<>>}
    ELSE LET shorter == EpisodeLists(n - 1) IN
         shorter \cup {Append(l, e) : l \in {s \in shorter : Len(s) = n - 1}, e \in EpisodeInputs}

\* The feed lists of at most n rows.
RECURSIVE FeedListsOf(_)
FeedListsOf(n) ==
    IF n = 0 THEN {<<>>}
    ELSE {<<>>} \cup
         UNION {{<<FeedRecord(h[1], h[2], eps)>> \o rest :
                    h \in FeedHeads, rest \in FeedListsOf(n - 1 - Len(eps))} :
                eps \in EpisodeLists(n - 1)}

FeedLists == FeedListsOf(MaxBatchRows)

----------------------------------------------------------------------------
(* create_tables and upsert_feeds over one sqlite file.                    *)

NoEnd == <<"none", 0>>

\* A sqlite file that does not exist yet, and no call of upsert_feeds begun.
NewStore ==
    /\ tables = {}
    /\ feeds = <<>>
    /\ episodes = <<>>
    /\ fkEnforced \in BOOLEAN
    /\ upsertPc = "idle"
    /\ curFeeds = <<>>
    /\ stmtIdx = 1
    /\ snap = [tables |-> {}, feeds |-> <<>>, episodes |-> <<>>]
    /\ wlog = <<>>
    /\ repeat = FALSE
    /\ prevEnd = NoEnd

NoParse ==
    /\ export = [kind |-> "none"]
    /\ parsePc = "start"
    /\ parseResult = [kind |-> "none"]

NoAuth ==
    /\ response = [kind |-> "none"]
    /\ authPc = "start"
    /\ authResult = "none"

NoArchive ==
    /\ creds = "none"
    /\ phase = "none"
    /\ phaseLog = <<>>
    /\ connOpen = FALSE
    /\ outcome = "none"

InitStore == NewStore /\ NoParse /\ NoAuth /\ NoArchive

\* The two CREATE TABLE IF NOT EXISTS of create_tables; n of them succeed
\* before an error ends the function (n = 2: Ok).
CreatedTables(ts, n) ==
    ts \cup (IF n >= 1 THEN {"feeds"} ELSE {}) \cup (IF n >= 2 THEN {"episodes"} ELSE {})

create_tables ==
    /\ upsertPc = "idle"
    /\ \E n \in 0..2 : tables' = CreatedTables(tables, n)
    /\ snap' = [Db EXCEPT !.tables = tables']
    /\ UNCHANGED <<feeds, episodes, fkEnforced, upsertPc, curFeeds, stmtIdx, wlog, repeat, prevEnd>>
    /\ UNCHANGED <<parseVars, authVars, archVars>>

\* upsert_feeds is called by a new run of the program.
upsert_feeds ==
    /\ upsertPc = "idle"
    /\ upsertPc' = "running"
    /\ \E fs \in FeedLists : curFeeds' = fs
    /\ stmtIdx' = 1
    /\ snap' = Db
    /\ wlog' = <<>>
    /\ repeat' = FALSE
    /\ prevEnd' = NoEnd
    /\ UNCHANGED <<storeVars, parseVars, authVars, archVars>>

\* The call ended at a statement that sqlite rejects (not at an I/O error).
Rejected ==
    /\ upsertPc = "err"
    /\ ~Execute(Db, Statements(curFeeds)[stmtIdx].sql, fkEnforced).ok

\* The next run is given the feeds of the run that just ended, when how that
\* run ended was decided by its feeds.
upsert_feeds_again ==
    /\ upsertPc = "ok" \/ Rejected
    /\ ~repeat
    /\ upsertPc' = "running"
    /\ stmtIdx' = 1
    /\ snap' = Db
    /\ wlog' = <<>>
    /\ repeat' = TRUE
    /\ prevEnd' = <<upsertPc, stmtIdx>>
    /\ UNCHANGED <<storeVars, curFeeds, parseVars, authVars, archVars>>

\* main returns: the process ends and nothing but the sqlite file is kept.
Exit ==
    /\ upsertPc \in {"ok", "err"}
    /\ upsertPc' = "idle"
    /\ curFeeds' = <<>>
    /\ stmtIdx' = 1
    /\ snap' = Db
    /\ wlog' = <<>>
    /\ repeat' = FALSE
    /\ prevEnd' = NoEnd
    /\ UNCHANGED <<storeVars, parseVars, authVars, archVars>>

\* The next conn.execute(...)? of the loops.
ExecuteNext ==
    /\ upsertPc = "running"
    /\ stmtIdx <= Len(Statements(curFeeds))
    /\ LET st == Statements(curFeeds)[stmtIdx]
           r == Execute(Db, st.sql, fkEnforced)
       IN IF r.ok
          THEN /\ feeds' = r.db.feeds
               /\ episodes' = r.db.episodes
               /\ stmtIdx' = stmtIdx + 1
               /\ wlog' = Append(wlog, [kind |-> st.kind, feed |-> st.feed, episode |-> st.episode,
                                         parent |-> st.sql.table = "episodes" =>
                                                      /\ st.sql.row.feedId[1] = "integer"
                                                      /\ st.sql.row.feedId[2] \in DOMAIN feeds])
               /\ UNCHANGED upsertPc
          ELSE /\ feeds' = AfterFailure(Db, snap).feeds
               /\ episodes' = AfterFailure(Db, snap).episodes
               /\ upsertPc' = "err"
               /\ UNCHANGED <<stmtIdx, wlog>>
    /\ UNCHANGED <<tables, fkEnforced, curFeeds, snap, repeat, prevEnd>>
    /\ UNCHANGED <<parseVars, authVars, archVars>>

\* The next conn.execute fails for a reason outside the statement (disk
\* full, I/O error, a locked file).
ExecuteIoError ==
    /\ upsertPc = "running"
    /\ stmtIdx <= Len(Statements(curFeeds))
    /\ feeds' = AfterFailure(Db, snap).feeds
    /\ episodes' = AfterFailure(Db, snap).episodes
    /\ upsertPc' = "err"
    /\ UNCHANGED <<tables, fkEnforced, curFeeds, stmtIdx, snap, wlog, repeat, prevEnd>>
    /\ UNCHANGED <<parseVars, authVars, archVars>>

\* Both loops are done: Ok(()).
ReturnOk ==
    /\ upsertPc = "running"
    /\ stmtIdx > Len(Statements(curFeeds))
    /\ upsertPc' = "ok"
    /\ UNCHANGED <<storeVars, curFeeds, stmtIdx, snap, wlog, repeat, prevEnd>>
    /\ UNCHANGED <<parseVars, authVars, archVars>>

NextStore ==
    \/ create_tables
    \/ upsert_feeds
    \/ upsert_feeds_again
    \/ Exit
    \/ ExecuteNext
    \/ ExecuteIoError
    \/ ReturnOk

SpecStore == InitStore /\ [][NextStore]_vars

----------------------------------------------------------------------------
(* Properties of upsert_feeds.                                             *)

Ended == upsertPc \in {"ok", "err"}

Plan == Statements(curFeeds)

RowidOf(sql) == IntegerAffinity(sql.id)[2]

TableOf(db, name) == IF name = "feeds" THEN db.feeds ELSE db.episodes

\* The tables after the first n statements of the plan, all successful, are
\* executed on db.
RECURSIVE AfterStatements(_, _, _)
AfterStatements(db, plan, n) ==
    IF n = 0 THEN db
    ELSE Execute(AfterStatements(db, plan, n - 1), plan[n].sql, fkEnforced).db

\* C1: a run of upsert_feeds that repeats the feeds of the run before it, and
\* ends as that run ended, leaves the feeds and episodes tables as that run
\* left them.
C1_Idempotent ==
    (Ended /\ repeat /\ <<upsertPc, stmtIdx>> = prevEnd) => Db = snap

C1_Witness ==
    /\ upsertPc = "ok" /\ repeat
    /\ Len(wlog) = 3
    /\ DOMAIN snap.episodes # {}
    /\ \E i, j \in 1..Len(Plan) :
          /\ i < j /\ Plan[i].sql.table = Plan[j].sql.table
          /\ RowidOf(Plan[i].sql) = RowidOf(Plan[j].sql)
          /\ Plan[i].sql.row # Plan[j].sql.row

\* C2: every row of the episodes table has a feedId that is the id of a row
\* of the feeds table, in every state, runs that abort partway included.
C2_NoOrphanEpisode ==
    \A k \in DOMAIN episodes :
        /\ episodes[k].feedId[1] = "integer"
        /\ episodes[k].feedId[2] \in DOMAIN feeds

C2_Witness ==
    /\ upsertPc = "err"
    /\ Len(wlog) >= 2
    /\ DOMAIN snap.episodes # {}
    /\ \E k \in DOMAIN episodes \cap DOMAIN snap.episodes : episodes[k].feedId # snap.episodes[k].feedId

\* C3: after a successful upsert_feeds, the row stored under each written
\* primary key is exactly the row of the last statement of the call that
\* wrote that key of that table.
C3_LastWriteWins ==
    upsertPc = "ok" =>
        \A i \in 1..Len(Plan) :
            LET sql == Plan[i].sql
                same == {j \in 1..Len(Plan) : /\ Plan[j].sql.table = sql.table
                                               /\ IntegerAffinity(Plan[j].sql.id) = IntegerAffinity(sql.id)}
                last == CHOOSE j \in same : \A h \in same : h <= j
            IN /\ IntegerAffinity(sql.id)[1] = "integer"
               /\ RowidOf(sql) \in DOMAIN TableOf(Db, sql.table)
               /\ TableOf(Db, sql.table)[RowidOf(sql)] = Plan[last].sql.row

\* A row of an earlier run and an earlier row of the same call are both
\* replaced, and a feedUrl that was stored becomes NULL.
C3_Witness ==
    /\ upsertPc = "ok"
    /\ \E i, j \in 1..Len(Plan) :
          /\ i < j /\ Plan[i].sql.table = "episodes" /\ Plan[j].sql.table = "episodes"
          /\ RowidOf(Plan[i].sql) = RowidOf(Plan[j].sql)
          /\ Plan[i].sql.row # Plan[j].sql.row
    /\ \E k \in DOMAIN snap.feeds :
          /\ snap.feeds[k].feedUrl # SqlNull
          /\ feeds[k].feedUrl = SqlNull
          /\ feeds[k].title # snap.feeds[k].title

\* C4: the statements of a call are executed feed by feed, a feed's row
\* before its episodes' rows and those before the next feed's row; when an
\* episode's row is written the feeds table holds a row with its feedId.
C4_FeedByFeed ==
    /\ \A a \in 1..Len(wlog) :
          wlog[a].kind = "episode" =>
             /\ wlog[a].parent
             /\ \E b \in 1..(a - 1) : wlog[b].kind = "feed" /\ wlog[b].feed = wlog[a].feed
    /\ \A a, b \in 1..Len(wlog) :
          a < b => \/ wlog[a].feed < wlog[b].feed
                   \/ wlog[a].feed = wlog[b].feed /\ wlog[a].episode < wlog[b].episode
    /\ upsertPc = "ok" =>
          /\ Len(wlog) = Len(Plan)
          /\ \A i \in 1..Len(curFeeds) :
                \A j \in 0..Len(curFeeds[i].episodes) :
                   \E a \in 1..Len(wlog) : wlog[a].feed = i /\ wlog[a].episode = j

C4_Witness ==
    /\ upsertPc = "ok"
    /\ Len(wlog) = 3
    /\ wlog[1].kind = "feed" /\ wlog[2].kind = "episode" /\ wlog[3].kind = "feed"
    /\ DOMAIN snap.feeds = {}

\* C5: when a statement fails, upsert_feeds ends with an error at that
\* statement: the tables hold what the statements before it wrote, and no
\* later statement is executed.
C5_FailFast ==
    upsertPc = "err" =>
        /\ stmtIdx <= Len(Plan)
        /\ Len(wlog) = stmtIdx - 1
        /\ Db = AfterStatements(snap, Plan, stmtIdx - 1)

C5_Witness ==
    /\ upsertPc = "err"
    /\ stmtIdx = 2
    /\ Len(Plan) = 3
    /\ Plan[2].kind = "episode"
    /\ Db # snap

----------------------------------------------------------------------------
(* get_podcasts: the export document and its parse.                        *)

\* The most nodes below the root element in an export document.
MaxNodes == 3

NoAttrs == [a \in {} |-> ""]

\* The nodes of the documents: elements with their attributes, and a text
\* node (no tag name, no attribute, no child).
NodeLabels ==
    { [tag |-> "outline", attrs |-> ("text" :> "feeds")],
      [tag |-> "outline", attrs |-> ("text" :> "feeds") @@ ("title" :> "feeds") @@ ("overcastId" :> "2")
                                    @@ ("subscribed" :> "0") @@ ("played" :> "true")
                                    @@ ("pubDate" :> "yesterday") @@ ("progress" :> "5.5")],
      [tag |-> "outline", attrs |-> ("text" :> "My Show") @@ ("title" :> "My Show") @@ ("overcastId" :> "1")
                                    @@ ("subscribed" :> "1") @@ ("xmlUrl" :> "http://f.xml")
                                    @@ ("played" :> "1") @@ ("progress" :> "5")
                                    @@ ("pubDate" :> "2021-01-01T00:00:00Z")
                                    @@ ("userUpdatedDate" :> "2021-01-02T03:00:00+02:00")],
      [tag |-> "outline", attrs |-> ("title" :> "No id")],
      [tag |-> "outline", attrs |-> ("overcastId" :> "7")],
      [tag |-> "outline", attrs |-> ("title" :> "") @@ ("overcastId" :> "")],
      [tag |-> "body", attrs |-> ("text" :> "feeds")],
      [tag |-> "", attrs |-> NoAttrs] }

RECURSIVE Size(_)
Size(ns) == IF ns = <<>> THEN 0 ELSE 1 + Size(Head(ns).children) + Size(Tail(ns))

\* The sequences of sibling nodes, with their subtrees, of at most n nodes.
RECURSIVE Forests(_)
Forests(n) ==
    IF n = 0 THEN {<<>>}
    ELSE {<<>>} \cup
         UNION {{<<[tag |-> l.tag, attrs |-> l.attrs, children |-> kids]>> \o rest :
                    l \in {x \in NodeLabels : x.tag # "" \/ kids = <<>>},
                    rest \in Forests(n - 1 - Size(kids))} :
                kids \in Forests(n - 1)}

Documents(n) == {[tag |-> "opml", attrs |-> ("version" :> "1.0"), children |-> f] : f \in Forests(n)}

\* What the GET of the export can come to: no response or no readable body,
\* a text that is no well-formed XML, a document.
Exports(n) ==
    {[kind |-> "transport_error"], [kind |-> "malformed"]}
    \cup {[kind |-> "document", root |-> d] : d \in Documents(n)}

\* Node::attribute
Attribute(n, name) == IF name \in DOMAIN n.attrs THEN Some(n.attrs[name]) ELSE None

\* Document::descendants: the nodes in document order, a node before its
\* children.
RECURSIVE DescendantsOfAll(_)
DescendantsOfAll(ns) ==
    IF ns = <<>> THEN <<>>
    ELSE <<Head(ns)>> \o DescendantsOfAll(Head(ns).children) \o DescendantsOfAll(Tail(ns))

Descendants(n) == DescendantsOfAll(<<n>>)

\* n.tag_name().name() == "outline" && n.attribute("text") == Some("feeds")
IsFeedsOutline(n) == n.tag = "outline" /\ Attribute(n, "text") = Some("feeds")

\* tree.descendants().find(...)
FindFeeds(root) ==
    LET ds == Descendants(root)
        hits == {i \in 1..Len(ds) : IsFeedsOutline(ds[i])}
    IN IF hits = {} THEN None
       ELSE Some(ds[CHOOSE i \in hits : \A h \in hits : i <= h])

\* DateTime::parse_from_rfc3339(u).map(|d| d.naive_local()).ok(), on the
\* texts of the model.
Rfc3339Texts ==
    ("2021-01-01T00:00:00Z" :> "2021-01-01T00:00:00")
    @@ ("2021-01-02T03:00:00+02:00" :> "2021-01-02T03:00:00")

ParseDate(o) ==
    IF IsSome(o) /\ Unwrap(o) \in DOMAIN Rfc3339Texts THEN Some(Rfc3339Texts[Unwrap(o)]) ELSE None

\* p.parse::<i64>().ok(), on the texts of the model.
I64Texts == ("5" :> 5) @@ ("0" :> 0)

ParseProgress(o) ==
    IF IsSome(o) /\ Unwrap(o) \in DOMAIN I64Texts THEN Some(I64Texts[Unwrap(o)]) ELSE None

\* if let [Some(title), Some(id)] = [episode.attribute("title"), episode.attribute("overcastId")]
EpisodeMatches(n) == IsSome(Attribute(n, "title")) /\ IsSome(Attribute(n, "overcastId"))

\* Episode { ... } of one child of a feed node
EpisodeOf(n) ==
    [id |-> Unwrap(Attribute(n, "overcastId")),
     played |-> Attribute(n, "played") = Some("1"),
     title |-> Unwrap(Attribute(n, "title")),
     updated_at |-> ParseDate(Attribute(n, "userUpdatedDate")),
     published_at |-> ParseDate(Attribute(n, "pubDate")),
     mp3_url |-> Attribute(n, "enclosureUrl"),
     overcast_url |-> Attribute(n, "overcastUrl"),
     html_url |-> Attribute(n, "url"),
     progress |-> ParseProgress(Attribute(n, "progress")),
     user_deleted |-> Attribute(n, "userDeleted") = Some("1")]

\* for episode in feed.children() { ... episodes.push(...) }
RECURSIVE EpisodesLoop(_, _)
EpisodesLoop(ns, acc) ==
    IF ns = <<>> THEN acc
    ELSE IF EpisodeMatches(Head(ns))
         THEN EpisodesLoop(Tail(ns), Append(acc, EpisodeOf(Head(ns))))
         ELSE EpisodesLoop(Tail(ns), acc)

\* A slip: && written for ||, so that a node with one of the two attributes
\* is not skipped.
FeedSkippedIfBothMissing(n) == Attribute(n, "title") = None /\ Attribute(n, "overcastId") = None

\* if title.is_none() || id.is_none() { continue; }
FeedSkipped(n) == Attribute(n, "title") = None \/ Attribute(n, "overcastId") = None

\* A slip: descendants() written for children().
FeedNodesDescendants(container) == Descendants(container)

\* feeds.children()
FeedNodes(container) == container.children

\* for feed in feeds.children() { ... out.push(Feed { ... }) }: the feeds, or
\* the panic of id.unwrap() / title.unwrap() on None.
RECURSIVE FeedsLoop(_, _)
FeedsLoop(ns, out) ==
    IF ns = <<>> THEN [kind |-> "Ok", feeds |-> out]
    ELSE LET feed == Head(ns) IN
         IF FeedSkipped(feed) THEN FeedsLoop(Tail(ns), out)
         ELSE IF Attribute(feed, "overcastId") = None \/ Attribute(feed, "title") = None
              THEN [kind |-> "Panic"]
              ELSE FeedsLoop(Tail(ns), Append(out,
                      [id |-> Unwrap(Attribute(feed, "overcastId")),
                       title |-> Unwrap(Attribute(feed, "title")),
                       subscribed |-> Attribute(feed, "subscribed") = Some("1"),
                       episodes |-> EpisodesLoop(feed.children, <<>>),
                       feed_url |-> Attribute(feed, "xmlUrl"),
                       html_url |-> Attribute(feed, "htmlUrl")]))

\* roxmltree::Document::parse(&podcast_contents)? and the rest of
\* get_podcasts: Err for a text that is no XML, the panic of unwrap() when
\* find returns None, else the loops.
ParseExport(ex) ==
    IF ex.kind = "malformed" THEN [kind |-> "Err", error |-> "xml"]
    ELSE LET found == FindFeeds(ex.root) IN
         IF found = None THEN [kind |-> "Panic"]
         ELSE FeedsLoop(FeedNodes(Unwrap(found)), <<>>)

\* client.get(...).send()?.text()? and then the parse.
GetPodcasts(ex) ==
    IF ex.kind = "transport_error" THEN [kind |-> "Err", error |-> "transport"]
    ELSE ParseExport(ex)

InitParse ==
    /\ NewStore /\ fkEnforced = FALSE
    /\ NoAuth /\ NoArchive
    /\ export \in Exports(MaxNodes)
    /\ parsePc = "start"
    /\ parseResult = [kind |-> "none"]

get_podcasts ==
    /\ parsePc = "start"
    /\ parseResult' = GetPodcasts(export)
    /\ parsePc' = "done"
    /\ UNCHANGED <<export, storeVars, runVars, authVars, archVars>>

NextParse == get_podcasts

SpecParse == InitParse /\ [][NextParse]_vars

----------------------------------------------------------------------------
(* Properties of get_podcasts.                                             *)

ParsedOk == parsePc = "done" /\ parseResult.kind = "Ok"

\* The node carries both the title and the overcastId attribute.
Qualifies(n) == "title" \in DOMAIN n.attrs /\ "overcastId" \in DOMAIN n.attrs

\* The first outline element with text="feeds" of the export, once it is
\* known to have one.
Container == Unwrap(FindFeeds(export.root))

HasContainer ==
    /\ export.kind = "document"
    /\ \E i \in 1..Len(Descendants(export.root)) :
          LET n == Descendants(export.root)[i]
          IN n.tag = "outline" /\ "text" \in DOMAIN n.attrs /\ n.attrs["text"] = "feeds"

\* C6, as the specification states it: every emitted Feed and Episode has a
\* non-empty id and a non-empty title.
C6_NonEmptyIdAndTitle ==
    ParsedOk =>
        \A i \in 1..Len(parseResult.feeds) :
            LET f == parseResult.feeds[i] IN
            /\ f.id # "" /\ f.title # ""
            /\ \A j \in 1..Len(f.episodes) : f.episodes[j].id # "" /\ f.episodes[j].title # ""

\* C6, amended: for a document with a feed list, get_podcasts returns Ok and
\* the id and title of every emitted Feed (Episode) are the values of the
\* overcastId and title attributes that one child of the feed list (of such
\* a child) carries; the values may be empty.
C6_IdAndTitlePresent ==
    (parsePc = "done" /\ HasContainer) =>
        /\ parseResult.kind = "Ok"
        /\ \A i \in 1..Len(parseResult.feeds) :
              LET f == parseResult.feeds[i] IN
              \E c \in 1..Len(Container.children) :
                  LET n == Container.children[c] IN
                  /\ Qualifies(n)
                  /\ n.attrs["overcastId"] = f.id /\ n.attrs["title"] = f.title
                  /\ \A j \in 1..Len(f.episodes) :
                        \E e \in 1..Len(n.children) :
                            /\ Qualifies(n.children[e])
                            /\ n.children[e].attrs["overcastId"] = f.episodes[j].id
                            /\ n.children[e].attrs["title"] = f.episodes[j].title

C6_Witness ==
    /\ ParsedOk
    /\ Len(parseResult.feeds) = 1
    /\ parseResult.feeds[1].id = "" /\ parseResult.feeds[1].title = ""
    /\ Len(parseResult.feeds[1].episodes) = 1
    /\ parseResult.feeds[1].episodes[1].id = ""

\* C7: get_podcasts emits the children of the feed list that carry both
\* attributes, in document order, each with its children that carry both
\* attributes, in document order, and nothing else; a child that lacks one
\* is passed over with whatever is below it, and a feed none of whose
\* children qualifies is emitted with no episode.
C7_ExactlyQualifyingChildren ==
    (parsePc = "done" /\ HasContainer) =>
        /\ parseResult.kind = "Ok"
        /\ LET fs == SelectSeq(Container.children, Qualifies) IN
           /\ Len(parseResult.feeds) = Len(fs)
           /\ \A i \in 1..Len(fs) :
                 LET es == SelectSeq(fs[i].children, Qualifies)
                     f == parseResult.feeds[i]
                 IN /\ f.id = fs[i].attrs["overcastId"]
                    /\ f.title = fs[i].attrs["title"]
                    /\ Len(f.episodes) = Len(es)
                    /\ \A j \in 1..Len(es) :
                          /\ f.episodes[j].id = es[j].attrs["overcastId"]
                          /\ f.episodes[j].title = es[j].attrs["title"]

\* A child without overcastId is passed over, and the sibling after it is
\* emitted, with no episode.
C7_Witness ==
    /\ ParsedOk /\ HasContainer
    /\ Len(Container.children) = 2
    /\ "title" \in DOMAIN Container.children[1].attrs
    /\ "overcastId" \notin DOMAIN Container.children[1].attrs
    /\ Len(parseResult.feeds) = 1
    /\ parseResult.feeds[1].id = "1"
    /\ parseResult.feeds[1].episodes = <<>>

\* C8: for a well-formed document with no outline element whose text is
\* "feeds", get_podcasts returns an error value.
C8_MissingFeedListIsErr ==
    (parsePc = "done" /\ export.kind = "document" /\ ~HasContainer) => parseResult.kind = "Err"

----------------------------------------------------------------------------
(* authenticate.                                                           *)

\* The most words before, and after, the middle of a response body.
MaxPad == 1

\* "Sorry, there was a problem looking up your Overcast account", a text
\* being the sequence of its words.
FailurePhrase ==
    <<"Sorry,", "there", "was", "a", "problem", "looking", "up", "your", "Overcast", "account">>

PadWords == {"Sorry,", "account", "<p>"}

RECURSIVE Pads(_)
Pads(n) ==
    IF n = 0 THEN {<<>>}
    ELSE LET shorter == Pads(n - 1) IN
         shorter \cup {Append(w, x) : w \in {v \in shorter : Len(v) = n - 1}, x \in PadWords}

Middles ==
    { <<>>,
      <<"Welcome", "back">>,
      FailurePhrase,
      SubSeq(FailurePhrase, 1, Len(FailurePhrase) - 1),
      SubSeq(FailurePhrase, 2, Len(FailurePhrase)),
      [FailurePhrase EXCEPT ![9] = "overcast"] }

Bodies(n) == {p \o m \o q : p \in Pads(n), m \in Middles, q \in Pads(n)}

\* What the POST to the login endpoint can come to.
Responses(n) ==
    {[kind |-> "send_error"], [kind |-> "text_error"]}
    \cup {[kind |-> "body", body |-> b] : b \in Bodies(n)}

\* A slip: starts_with written for contains.
StartsWith(text, pat) == Len(text) >= Len(pat) /\ SubSeq(text, 1, Len(pat)) = pat

\* str::contains
Contains(text, pat) ==
    \E i \in 1..(Len(text) - Len(pat) + 1) : SubSeq(text, i, i + Len(pat) - 1) = pat

\* authenticate: send()? and text()? pass a transport error on, the phrase
\* in the body is Err("unable to authenticate with Overcast"), else Ok(()).
Authenticate(resp) ==
    IF resp.kind = "send_error" THEN [kind |-> "Err", error |-> "send"]
    ELSE IF resp.kind = "text_error" THEN [kind |-> "Err", error |-> "text"]
    ELSE IF Contains(resp.body, FailurePhrase)
         THEN [kind |-> "Err", error |-> "unable to authenticate with Overcast"]
         ELSE [kind |-> "Ok"]

InitAuth ==
    /\ NewStore /\ fkEnforced = FALSE
    /\ NoParse /\ NoArchive
    /\ response \in Responses(MaxPad)
    /\ authPc = "start"
    /\ authResult = "none"

authenticate ==
    /\ authPc = "start"
    /\ authResult' = Authenticate(response)
    /\ authPc' = "done"
    /\ UNCHANGED <<response, storeVars, runVars, parseVars, archVars>>

NextAuth == authenticate

SpecAuth == InitAuth /\ [][NextAuth]_vars

\* The words of the phrase, one after another, somewhere in the body.
RECURSIVE PhraseFrom(_, _)
PhraseFrom(body, k) ==
    \/ k > Len(FailurePhrase)
    \/ /\ body # <<>>
       /\ Head(body) = FailurePhrase[k]
       /\ PhraseFrom(Tail(body), k + 1)

RECURSIVE HasPhrase(_)
HasPhrase(body) == PhraseFrom(body, 1) \/ (body # <<>> /\ HasPhrase(Tail(body)))

\* C9: authenticate returns the invalid-credentials error exactly when the
\* response has a readable body that contains the phrase, and Ok for every
\* readable body without it.
C9_InvalidCredentialsIffPhrase ==
    authPc = "done" =>
        /\ authResult = [kind |-> "Err", error |-> "unable to authenticate with Overcast"]
              <=> (response.kind = "body" /\ HasPhrase(response.body))
        /\ (response.kind = "body" /\ ~HasPhrase(response.body)) => authResult = [kind |-> "Ok"]

C9_Witness ==
    /\ authPc = "done"
    /\ authResult = [kind |-> "Err", error |-> "unable to authenticate with Overcast"]
    /\ response.kind = "body"
    /\ Len(response.body) = Len(FailurePhrase) + 1
    /\ Head(response.body) = "Sorry,"
    /\ response.body[2] = "Sorry,"

----------------------------------------------------------------------------
(* archive: one run of the program over a sqlite file that is new.         *)

\* The most nodes below the root element of the export of an archive run.
MaxArchiveNodes == 2

\* A slip: Connection::open moved up, before the export is fetched.
ArchiveCallsOpenEarly ==
    <<"authenticate", "open", "fetch", "parse", "create_tables", "upsert_feeds">>

\* The calls of archive, in program order: authenticate, the two halves of
\* get_podcasts, Connection::open, create_tables, upsert_feeds.
ArchiveCalls ==
    <<"authenticate", "fetch", "parse", "open", "create_tables", "upsert_feeds">>

\* The call that follows call c, or "done" after the last one.
CallAfter(c) ==
    LET i == CHOOSE k \in 1..Len(ArchiveCalls) : ArchiveCalls[k] = c
    IN IF i = Len(ArchiveCalls) THEN "done" ELSE ArchiveCalls[i + 1]

ArchiveResponses ==
    {[kind |-> "send_error"],
     [kind |-> "body", body |-> FailurePhrase],
     [kind |-> "body", body |-> <<"Welcome", "back">>]}

InitArchive ==
    /\ NewStore
    /\ response \in ArchiveResponses
    /\ authPc = "start"
    /\ authResult = "none"
    /\ export \in Exports(MaxArchiveNodes)
    /\ parsePc = "start"
    /\ parseResult = [kind |-> "none"]
    /\ creds \in {"flags", "auth_file", "bad_auth_file", "none"}
    /\ phase = "credentials"
    /\ phaseLog = <<>>
    /\ connOpen = FALSE
    /\ outcome = [kind |-> "running"]

\* Call c returned: `?` ends archive with the error (a panic ends the
\* process), Ok goes on to the next call.
Logged(c, ok) == Append(phaseLog, [call |-> c, ok |-> ok])

Failed(c, kind) ==
    /\ phaseLog' = Logged(c, FALSE)
    /\ phase' = "done"
    /\ outcome' = [kind |-> kind, at |-> c]

\* The credentials come from the flags or from the auth file; a file that
\* cannot be opened or read as JSON, or no credentials at all, ends the run.
ArchiveCredentials ==
    /\ phase = "credentials"
    /\ IF creds \in {"flags", "auth_file"}
       THEN /\ phase' = ArchiveCalls[1]
            /\ UNCHANGED <<phaseLog, outcome>>
       ELSE /\ phase' = "done"
            /\ outcome' = [kind |-> "Err", at |-> "credentials"]
            /\ UNCHANGED phaseLog
    /\ UNCHANGED <<creds, connOpen, storeVars, runVars, parseVars, authVars>>

\* authenticate(&client, &username, &password)?
ArchiveAuthenticate ==
    /\ phase = "authenticate"
    /\ authResult' = Authenticate(response)
    /\ authPc' = "done"
    /\ IF authResult'.kind = "Ok"
       THEN /\ phaseLog' = Logged("authenticate", TRUE)
            /\ phase' = CallAfter("authenticate")
            /\ UNCHANGED outcome
       ELSE Failed("authenticate", "Err")
    /\ UNCHANGED <<creds, connOpen, response, storeVars, runVars, parseVars>>

\* get_podcasts, first half: client.get(...).send()?.text()?
ArchiveFetch ==
    /\ phase = "fetch"
    /\ IF export.kind # "transport_error"
       THEN /\ phaseLog' = Logged("fetch", TRUE)
            /\ phase' = CallAfter("fetch")
            /\ UNCHANGED outcome
       ELSE Failed("fetch", "Err")
    /\ UNCHANGED <<creds, connOpen, storeVars, runVars, parseVars, authVars>>

\* get_podcasts, second half: the parse of the text and the loops.
ArchiveParse ==
    /\ phase = "parse"
    /\ parseResult' = ParseExport(export)
    /\ parsePc' = "done"
    /\ IF parseResult'.kind = "Ok"
       THEN /\ phaseLog' = Logged("parse", TRUE)
            /\ phase' = CallAfter("parse")
            /\ UNCHANGED outcome
       ELSE Failed("parse", parseResult'.kind)
    /\ UNCHANGED <<creds, connOpen, export, storeVars, runVars, authVars>>

\* Connection::open(&db_path)?
ArchiveOpen ==
    /\ phase = "open"
    /\ \E ok \in BOOLEAN :
          IF ok
          THEN /\ connOpen' = TRUE
               /\ phaseLog' = Logged("open", TRUE)
               /\ phase' = CallAfter("open")
               /\ UNCHANGED outcome
          ELSE /\ Failed("open", "Err")
               /\ UNCHANGED connOpen
    /\ UNCHANGED <<creds, storeVars, runVars, parseVars, authVars>>

\* create_tables(&conn)?
ArchiveCreateTables ==
    /\ phase = "create_tables"
    /\ \E n \in 0..2 :
          /\ tables' = CreatedTables(tables, n)
          /\ IF n = 2
             THEN /\ phaseLog' = Logged("create_tables", TRUE)
                  /\ phase' = CallAfter("create_tables")
                  /\ UNCHANGED outcome
             ELSE Failed("create_tables", "Err")
    /\ UNCHANGED <<creds, connOpen, feeds, episodes, fkEnforced, runVars, parseVars, authVars>>

\* upsert_feeds(&conn, &podcasts) is called.
ArchiveUpsert ==
    /\ phase = "upsert_feeds"
    /\ upsertPc = "idle"
    /\ upsertPc' = "running"
    /\ curFeeds' = parseResult.feeds
    /\ stmtIdx' = 1
    /\ snap' = Db
    /\ wlog' = <<>>
    /\ UNCHANGED <<repeat, prevEnd, storeVars, parseVars, authVars, archVars>>

\* upsert_feeds(&conn, &podcasts)? returned, and with Ok, so does archive.
ArchiveReturn ==
    /\ phase = "upsert_feeds"
    /\ upsertPc \in {"ok", "err"}
    /\ IF upsertPc = "ok"
       THEN /\ phaseLog' = Logged("upsert_feeds", TRUE)
            /\ phase' = CallAfter("upsert_feeds")
            /\ outcome' = [kind |-> "Ok"]
       ELSE Failed("upsert_feeds", "Err")
    /\ UNCHANGED <<creds, connOpen, storeVars, runVars, parseVars, authVars>>

NextArchive ==
    \/ ArchiveCredentials
    \/ ArchiveAuthenticate
    \/ ArchiveFetch
    \/ ArchiveParse
    \/ ArchiveOpen
    \/ ArchiveCreateTables
    \/ ArchiveUpsert
    \/ ExecuteNext
    \/ ExecuteIoError
    \/ ReturnOk
    \/ ArchiveReturn

SpecArchive == InitArchive /\ [][NextArchive]_vars

ExpectedCalls ==
    <<"authenticate", "fetch", "parse", "open", "create_tables", "upsert_feeds">>

ArchiveFailed == outcome.kind \in {"Err", "Panic"}

\* C10: archive makes its calls in the order authenticate, fetch, parse,
\* (open,) create_tables, upsert_feeds, each only after the one before it
\* succeeded; a failed call ends the run with its failure and no later call
\* is made; unless authenticate, fetch and parse all succeeded the sqlite
\* file is neither opened nor written.
C10_PhasesInOrder ==
    /\ Len(phaseLog) <= Len(ExpectedCalls)
    /\ \A i \in 1..Len(phaseLog) :
          /\ phaseLog[i].call = ExpectedCalls[i]
          /\ i < Len(phaseLog) => phaseLog[i].ok
    /\ ArchiveFailed =>
          /\ phase = "done"
          /\ \/ outcome.at = "credentials" /\ phaseLog = <<>>
             \/ /\ phaseLog # <<>>
                /\ phaseLog[Len(phaseLog)] = [call |-> outcome.at, ok |-> FALSE]
    /\ outcome.kind = "Ok" =>
          /\ phase = "done"
          /\ Len(phaseLog) = Len(ExpectedCalls)
          /\ \A i \in 1..Len(phaseLog) : phaseLog[i].ok
    /\ outcome.kind = "running" => \A i \in 1..Len(phaseLog) : phaseLog[i].ok
    /\ (Len(phaseLog) < 3 \/ ~phaseLog[3].ok) =>
          /\ ~connOpen
          /\ tables = {} /\ feeds = <<>> /\ episodes = <<>>
          /\ upsertPc = "idle"
    /\ upsertPc # "idle" => (Len(phaseLog) >= 5 /\ phaseLog[5].ok)
    /\ tables # {} => (Len(phaseLog) >= 4 /\ phaseLog[4].ok)

\* The export has no feed list: the run ends in parse, after authenticate
\* and fetch, and the sqlite file is untouched.
C10_Witness ==
    /\ ArchiveFailed
    /\ outcome.at = "parse"
    /\ Len(phaseLog) = 3
    /\ ~connOpen

====
